---- MODULE Spec2Model ----
(***************************************************************************)
(* The in-memory battle-room subsystem of src/app.py (LuLeMe): the room    *)
(* registry BATTLE_ROOMS, the lazily evaluated 60 second window of         *)
(* _room_state, and the request handlers battle_create .. battle_surrender.*)
(*                                                                         *)
(* Every handler is one atomic action (one request served to completion),  *)
(* except in SpecRace, where the threads of the server run battle_tap      *)
(* side by side, one read or write of the shared registry at a time.       *)
(* A Python dict is modelled with its insertion order: the players of a    *)
(* room are a sequence of player records, the registry is a function whose *)
(* domain is the set of live codes.  The clock counts in units of          *)
(* 1/UnitsPerSec second, so that int(delta) in _room_state truncates.      *)
(***************************************************************************)
EXTENDS Integers, Sequences, FiniteSets, TLC

VARIABLES BATTLE_ROOMS, now, req, resp, inflight

vars == <<BATTLE_ROOMS, now, req, resp, inflight>>

(***************************************************************************)
(* Bounds of the model and constants of the program.                       *)
(***************************************************************************)
\* seconds of game play per room (BATTLE_DURATION)
BATTLE_DURATION == 60
\* _cleanup_rooms: seconds a finished room is kept
FINISHED_GRACE == 300
\* _cleanup_rooms: seconds an unfinished room is kept
UNFINISHED_GRACE == 1800
\* clock units per second (sub-second resolution of datetime.utcnow())
UnitsPerSec == 2
\* the clock stops advancing after this many seconds
MaxSeconds == 60
\* the taps recorded in one room are capped (sum of the players' counts):
\* in SpecClock, and in Spec
MaxTaps == 2
MaxTapsCrowd == 1

\* Python's None, for a timestamp, a user id or a surrender result
None == -1

\* the logged-in users (users.id, AUTOINCREMENT, starts at 1)
Users == {1, 2, 3}
\* the users who send requests while the clock advances (SpecClock)
ClockUsers == {1, 2}
\* the codes _gen_code() may draw (6 characters of its alphabet)
Codes == {"ABCDEF"}
\* the codes drawn while rooms are collected (SpecGC)
GCCodes == {"ABCDEF", "GHJKLM"}
\* the users who make rooms and those who join them in SpecGC
GCHosts == {1}
GCGuests == {2}
\* the instants at which the clock is read in SpecGC, in units: one unit after
\* the first request, and then one unit after each of the two grace periods of
\* _cleanup_rooms, so that a room made or finished at the first request has
\* passed its grace period and one made or finished a unit later has just
\* reached it
GCInstants == {1, FINISHED_GRACE * UnitsPerSec + 1, UNFINISHED_GRACE * UnitsPerSec + 1}
\* the threads of the server that run a handler side by side (SpecRace)
Workers == {1, 2}
\* the amounts by which the clock advances between two requests, in units
GameSteps == {BATTLE_DURATION * UnitsPerSec - 1, BATTLE_DURATION * UnitsPerSec}

\* users.username of a user id (the identity provider's display name)
Username(u) == <<"name", u>>

(***************************************************************************)
(* dict helpers: a dict of players is a sequence of player records in      *)
(* insertion order, at most one per user_id.                               *)
(***************************************************************************)
Keys(players) == {players[i].user_id : i \in 1..Len(players)}

KeyList(players) == [i \in 1..Len(players) |-> players[i].user_id]

IndexOf(players, u) == CHOOSE i \in 1..Len(players) : players[i].user_id = u

GetPlayer(players, u) == players[IndexOf(players, u)]

\* players[u] = rec : overwrite in place, or append a new key
SetPlayer(players, u, rec) ==
    IF u \in Keys(players)
    THEN [players EXCEPT ![IndexOf(players, u)] = rec]
    ELSE Append(players, rec)

\* a deletion that keeps the key it is given and drops the others
DelPlayerOthers(players, u) == SelectSeq(players, LAMBDA p : p.user_id = u)

\* a deletion that pops the oldest key instead of the one it is given
DelPlayerOldest(players, u) == Tail(players)

\* del players[u]
DelPlayer(players, u) == SelectSeq(players, LAMBDA p : p.user_id # u)

\* membership of a Python list
InList(x, list) == \E i \in 1..Len(list) : list[i] = x

RECURSIVE InsertByCount(_, _)
\* p placed behind every element whose count is >= p.count (stable)
InsertByCount(sorted, p) ==
    IF sorted = <<>> THEN <<p>>
    ELSE IF Head(sorted).count >= p.count
         THEN <<Head(sorted)>> \o InsertByCount(Tail(sorted), p)
         ELSE <<p>> \o sorted

RECURSIVE SortByCountDesc(_)
\* sorted(players.values(), key=count, reverse=True): stable, descending
SortByCountDesc(players) ==
    IF players = <<>> THEN <<>>
    ELSE InsertByCount(SortByCountDesc(SubSeq(players, 1, Len(players) - 1)),
                       players[Len(players)])

(***************************************************************************)
(* _room_state: the snapshot of a room, with the lazy expiry as its side   *)
(* effect.  Returns the room as left by the call and the snapshot.         *)
(***************************************************************************)
\* a slip: the elapsed seconds rounded up instead of truncated
ElapsedSecondsCeil(t, since) == (t - since + UnitsPerSec - 1) \div UnitsPerSec

\* int((_now() - started_at).total_seconds())
ElapsedSeconds(t, since) == (t - since) \div UnitsPerSec

Remaining(room, t) ==
    IF room.started_at # None
    THEN LET left == BATTLE_DURATION - ElapsedSeconds(t, room.started_at)
         IN  IF left > 0 THEN left ELSE 0
    ELSE BATTLE_DURATION

\* the room after the read: finished_at is written when the window is over
Expire(room, t) ==
    IF room.started_at # None /\ Remaining(room, t) = 0 /\ room.finished_at = None
    THEN [room EXCEPT !.finished_at = t]
    ELSE room

Snapshot(room, t) ==
    [code |-> room.code,
     creator_id |-> room.creator_id,
     creator_name |-> room.creator_name,
     players |-> SortByCountDesc(room.players),
     started |-> room.started_at # None,
     remaining |-> Remaining(room, t),
     finished |-> Expire(room, t).finished_at # None,
     surrendered |-> room.surrendered,
     surrender_result |-> room.surrender_result,
     winner_id |-> room.winner_id]

RoomState(room, t) == [room |-> Expire(room, t), state |-> Snapshot(room, t)]

(***************************************************************************)
(* The registry.                                                           *)
(***************************************************************************)
\* BATTLE_ROOMS[code] = room
PutRoom(rooms, code, room) ==
    [c \in DOMAIN rooms \cup {code} |-> IF c = code THEN room ELSE rooms[c]]

\* a slip: the room of the last player is not deleted
DelRoomKeep(rooms, code) == rooms

\* del BATTLE_ROOMS[code]
DelRoom(rooms, code) == [c \in DOMAIN rooms \ {code} |-> rooms[c]]

\* a cleanup that drops a room as soon as its age reaches the grace period
StaleAtGrace(room, t) ==
    IF room.finished_at # None
    THEN t - room.finished_at >= FINISHED_GRACE * UnitsPerSec
    ELSE t - room.created_at >= UNFINISHED_GRACE * UnitsPerSec

\* _cleanup_rooms: whether the room is dropped at time t
Stale(room, t) ==
    IF room.finished_at # None
    THEN t - room.finished_at > FINISHED_GRACE * UnitsPerSec
    ELSE t - room.created_at > UNFINISHED_GRACE * UnitsPerSec

CleanupRooms(rooms, t) ==
    [c \in {d \in DOMAIN rooms : ~Stale(rooms[d], t)} |-> rooms[c]]

\* error(message, status)
Error(message, status) == [status |-> status, message |-> message]

\* jsonify({"message": ..., "state": ...})
Ok(message, state) == [status |-> 200, message |-> message, state |-> state]

NewPlayer(u) == [user_id |-> u, username |-> Username(u), count |-> 0, ready |-> FALSE]

\* the player record battle_tap admits: it has no "ready" key
TapPlayer(u) == [user_id |-> u, username |-> Username(u), count |-> 0]

NewRoom(code, u, t) ==
    [code |-> code,
     creator_id |-> u,
     creator_name |-> Username(u),
     players |-> <<NewPlayer(u)>>,
     created_at |-> t,
     started_at |-> None,
     finished_at |-> None,
     surrendered |-> <<>>,
     surrender_result |-> "None",
     winner_id |-> None]

(***************************************************************************)
(* The handlers, as functions of the registry, the clock and the request:  *)
(* each gives the registry it leaves and the response it returns.          *)
(***************************************************************************)
Result(rooms, response) == [rooms |-> rooms, resp |-> response]

\* the registry with the room of `code` replaced by the room a read leaves
Store(rooms, code, room) == PutRoom(rooms, code, room)

BattleCreate(rooms, t, code, u) ==
    LET kept == CleanupRooms(rooms, t)
        rs   == RoomState(NewRoom(code, u, t), t)
    IN  Result(PutRoom(kept, code, rs.room),
               [status |-> 200, message |-> "created", code |-> code, state |-> rs.state])

BattleJoin(rooms, t, code, u) ==
    IF code \notin DOMAIN rooms THEN Result(rooms, Error("no_room", 404))
    ELSE IF rooms[code].finished_at # None THEN Result(rooms, Error("room_finished", 400))
    ELSE LET room == [rooms[code] EXCEPT !.players = SetPlayer(@, u, NewPlayer(u))]
             rs   == RoomState(room, t)
         IN  Result(Store(rooms, code, rs.room), Ok("joined", rs.state))

BattleReady(rooms, t, code, u, ready) ==
    IF code \notin DOMAIN rooms THEN Result(rooms, Error("no_room", 404))
    ELSE IF rooms[code].finished_at # None THEN Result(rooms, Error("room_finished", 400))
    ELSE IF rooms[code].started_at # None THEN Result(rooms, Error("already_running", 400))
    ELSE IF u \notin Keys(rooms[code].players) THEN Result(rooms, Error("not_in_room", 400))
    ELSE LET old  == GetPlayer(rooms[code].players, u)
             set  == [f \in DOMAIN old \cup {"ready"} |-> IF f = "ready" THEN ready ELSE old[f]]
             room == [rooms[code] EXCEPT !.players = SetPlayer(@, u, set)]
             rs   == RoomState(room, t)
         IN  Result(Store(rooms, code, rs.room), Ok("ready_updated", rs.state))

\* list(players.keys())[0]: the first remaining key becomes the host
NewCreator(players) == KeyList(players)[1]

BattleLeave(rooms, t, code, u) ==
    IF code \notin DOMAIN rooms THEN Result(rooms, Error("no_room", 404))
    ELSE IF u \notin Keys(rooms[code].players) THEN Result(rooms, Error("not_in_room", 400))
    ELSE LET is_creator == rooms[code].creator_id = u
             players    == DelPlayer(rooms[code].players, u)
             left       == [rooms[code] EXCEPT !.players = players]
         IN  IF Len(players) > 0 /\ is_creator
             THEN LET moved == [left EXCEPT !.creator_id = NewCreator(players),
                                            !.creator_name =
                                                GetPlayer(players, NewCreator(players)).username]
                      rs    == RoomState(moved, t)
                  IN  Result(Store(rooms, code, rs.room),
                             [status |-> 200, message |-> "left_host_transferred",
                              state |-> rs.state, new_creator |-> TRUE])
             ELSE IF Len(players) = 0
             THEN Result(DelRoom(rooms, code),
                         [status |-> 200, message |-> "room_dissolved", room_deleted |-> TRUE])
             ELSE LET rs == RoomState(left, t)
                  IN  Result(Store(rooms, code, rs.room), Ok("left", rs.state))

\* a slip: every player of the room may start
MayStartAnyPlayer(room, u) == u \in Keys(room.players)

\* battle_start's test of the requester: only creator_id may start
MayStart(room, u) == room.creator_id = u

\* a slip: one player is enough
EnoughPlayersOne(room) == Len(room.players) >= 1

\* a start that waits for every player to be ready
EnoughPlayersReady(room) ==
    /\ Len(room.players) >= 2
    /\ \A i \in 1..Len(room.players) : room.players[i].ready

\* battle_start's test of the room: at least 2 players
EnoughPlayers(room) == Len(room.players) >= 2

\* a start that does not look at started_at and starts the room again
BattleStartAgain(rooms, t, code, u) ==
    IF code \notin DOMAIN rooms THEN Result(rooms, Error("no_room", 404))
    ELSE IF ~MayStart(rooms[code], u) THEN Result(rooms, Error("host_only", 403))
    ELSE IF rooms[code].finished_at # None THEN Result(rooms, Error("room_finished", 400))
    ELSE IF ~EnoughPlayers(rooms[code]) THEN Result(rooms, Error("need_two_players", 400))
    ELSE LET room == [rooms[code] EXCEPT !.started_at = t, !.finished_at = None]
             rs   == RoomState(room, t)
         IN  Result(Store(rooms, code, rs.room), Ok("battle_started", rs.state))

BattleStart(rooms, t, code, u) ==
    IF code \notin DOMAIN rooms THEN Result(rooms, Error("no_room", 404))
    ELSE IF ~MayStart(rooms[code], u) THEN Result(rooms, Error("host_only", 403))
    ELSE IF rooms[code].finished_at # None THEN Result(rooms, Error("room_finished", 400))
    ELSE IF rooms[code].started_at # None
    THEN LET rs == RoomState(rooms[code], t)
         IN  Result(Store(rooms, code, rs.room), Ok("already_started", rs.state))
    ELSE IF ~EnoughPlayers(rooms[code]) THEN Result(rooms, Error("need_two_players", 400))
    ELSE LET room == [rooms[code] EXCEPT !.started_at = t, !.finished_at = None]
             rs   == RoomState(room, t)
         IN  Result(Store(rooms, code, rs.room), Ok("battle_started", rs.state))

\* a slip: the tap stores a fresh record with count 1 instead of adding 1
CountTapFresh(players, u) ==
    SetPlayer(players, u, [TapPlayer(u) EXCEPT !.count = 1])

\* a tap that takes 1 from the count instead of adding it
CountTapDown(players, u) ==
    LET admitted == IF u \in Keys(players) THEN players
                    ELSE SetPlayer(players, u, TapPlayer(u))
    IN  SetPlayer(admitted, u, [GetPlayer(admitted, u) EXCEPT !.count = @ - 1])

\* players[u]["count"] += 1, after the auto-admission of a new user
CountTap(players, u) ==
    LET admitted == IF u \in Keys(players) THEN players
                    ELSE SetPlayer(players, u, TapPlayer(u))
    IN  SetPlayer(admitted, u, [GetPlayer(admitted, u) EXCEPT !.count = @ + 1])

\* battle_tap's test of the snapshot: the battle has not started
TapTooEarly(state) == ~state.started

\* a slip: only the clock is asked, not the finished flag
TapTooLateByClock(state) == state.remaining <= 0

\* battle_tap's test of the snapshot: the battle is over
TapTooLate(state) == state.finished \/ state.remaining <= 0

BattleTap(rooms, t, code, u) ==
    IF code \notin DOMAIN rooms THEN Result(rooms, Error("no_room", 404))
    ELSE LET first == RoomState(rooms[code], t)
         IN  IF TapTooEarly(first.state)
             THEN Result(Store(rooms, code, first.room), Error("not_started", 400))
             ELSE IF TapTooLate(first.state)
             THEN Result(Store(rooms, code, [first.room EXCEPT !.finished_at = t]),
                         Error("finished", 400))
             ELSE LET room == [first.room EXCEPT !.players = CountTap(@, u)]
                      rs   == RoomState(room, t)
                  IN  Result(Store(rooms, code, rs.room), Ok("recorded", rs.state))

BattleState(rooms, t, code, u) ==
    IF code \notin DOMAIN rooms THEN Result(rooms, Error("no_room", 404))
    ELSE LET rs == RoomState(rooms[code], t)
         IN  Result(Store(rooms, code, rs.room), [status |-> 200, state |-> rs.state])

\* a slip: the first player of the dict wins, surrendered or not
FirstStandingAnyPlayer(players, surrendered) ==
    IF players = <<>> THEN None ELSE players[1].user_id

\* the first player, in dict order, who has not surrendered; None without one
FirstStanding(players, surrendered) ==
    LET standing == {i \in 1..Len(players) : ~InList(players[i].user_id, surrendered)}
    IN  IF standing = {} THEN None
        ELSE players[CHOOSE i \in standing : \A j \in standing : i <= j].user_id

\* a slip: > for >= in the draw test
AllSurrenderedStrict(surrendered, players) == Len(surrendered) > Len(players)

\* the draw test of battle_surrender
AllSurrendered(surrendered, players) == Len(surrendered) >= Len(players)

BattleSurrender(rooms, t, code, u) ==
    IF code \notin DOMAIN rooms THEN Result(rooms, Error("no_room", 404))
    ELSE LET first == RoomState(rooms[code], t)
         IN  IF ~first.state.started
             THEN Result(Store(rooms, code, first.room), Error("not_started", 400))
             ELSE IF first.state.finished
             THEN Result(Store(rooms, code, first.room), Error("battle_over", 400))
             ELSE IF ~\E i \in 1..Len(first.state.players) :
                          first.state.players[i].user_id = u
             THEN Result(Store(rooms, code, first.room), Error("not_in_room", 400))
             ELSE LET surrendered == IF InList(u, first.room.surrendered)
                                     THEN first.room.surrendered
                                     ELSE Append(first.room.surrendered, u)
                      noted       == [first.room EXCEPT !.surrendered = surrendered]
                      winner_id   == FirstStanding(noted.players, surrendered)
                  IN  IF AllSurrendered(surrendered, noted.players)
                      THEN LET room == [noted EXCEPT !.finished_at = t,
                                                     !.surrender_result = "draw"]
                               rs   == RoomState(room, t)
                           IN  Result(Store(rooms, code, rs.room), Ok("all_surrendered", rs.state))
                      ELSE IF winner_id # None /\ winner_id # 0
                      THEN LET room == [noted EXCEPT !.finished_at = t,
                                                     !.surrender_result = "surrender",
                                                     !.winner_id = winner_id]
                               rs   == RoomState(room, t)
                           IN  Result(Store(rooms, code, rs.room), Ok("surrendered", rs.state))
                      ELSE LET rs == RoomState(noted, t)
                           IN  Result(Store(rooms, code, rs.room), Ok("recorded", rs.state))

(***************************************************************************)
(* battle_rooms: the list of the rooms open to join.  A string is the      *)
(* sequence of the codes of its characters.                                *)
(***************************************************************************)
\* "%02d" % n
TwoDigits(n) == <<48 + (n \div 10), 48 + (n % 10)>>

RECURSIVE Digits(_, _)
\* "%0*d" % (width, n)
Digits(n, width) ==
    IF width = 0 THEN <<>> ELSE Append(Digits(n \div 10, width - 1), 48 + (n % 10))

\* the microseconds of the clock value t
Microsecond(t) == ((t % UnitsPerSec) * 1000000) \div UnitsPerSec

\* datetime.isoformat(), from the hours on (the date is the same for every
\* clock value of the model): "HH:MM:SS", followed by ".ffffff" when the
\* microseconds are not 0
IsoFormat(t) ==
    LET seconds == t \div UnitsPerSec
    IN  TwoDigits(seconds \div 3600) \o <<58>> \o
        TwoDigits((seconds % 3600) \div 60) \o <<58>> \o
        TwoDigits(seconds % 60) \o
        (IF Microsecond(t) = 0 THEN <<>> ELSE <<46>> \o Digits(Microsecond(t), 6))

RECURSIVE StrLess(_, _)
\* a < b, for two Python strings
StrLess(a, b) ==
    IF b = <<>> THEN FALSE
    ELSE IF a = <<>> THEN TRUE
    ELSE IF Head(a) # Head(b) THEN Head(a) < Head(b)
    ELSE StrLess(Tail(a), Tail(b))

\* a filter that lets a started room through
ListedUnfinished(room) == room.finished_at = None

\* the filter of battle_rooms: neither started nor finished
Listed(room) == room.started_at = None /\ room.finished_at = None

\* the entry of a room in the list
ListEntry(room, t) ==
    [code |-> room.code,
     creator_name |-> room.creator_name,
     player_count |-> Len(Snapshot(room, t).players),
     created_at |-> IsoFormat(room.created_at)]

RECURSIVE InsertByCreated(_, _)
\* e placed behind every entry whose created_at is not less than e's (stable)
InsertByCreated(sorted, e) ==
    IF sorted = <<>> THEN <<e>>
    ELSE IF ~StrLess(Head(sorted).created_at, e.created_at)
         THEN <<Head(sorted)>> \o InsertByCreated(Tail(sorted), e)
         ELSE <<e>> \o sorted

RECURSIVE SortByCreatedDesc(_)
\* list.sort(key=created_at, reverse=True): stable, descending
SortByCreatedDesc(entries) ==
    IF entries = <<>> THEN <<>>
    ELSE InsertByCreated(SortByCreatedDesc(SubSeq(entries, 1, Len(entries) - 1)),
                         entries[Len(entries)])

\* the orders in which a dict of the given keys may be iterated: the order of
\* the insertions, which the registry of the model does not record
DictOrders(keys) ==
    {order \in [1..Cardinality(keys) -> keys] :
        \A i, j \in 1..Cardinality(keys) : i # j => order[i] # order[j]}

\* battle_rooms, iterating the registry in the given order of its codes
BattleRooms(rooms, t, order) ==
    LET kept    == CleanupRooms(rooms, t)
        visited == SelectSeq(order, LAMBDA c : c \in DOMAIN kept)
        open    == SelectSeq(visited, LAMBDA c : Listed(kept[c]))
        entries == [i \in 1..Len(open) |-> ListEntry(kept[open[i]], t)]
    IN  Result(kept, [status |-> 200, rooms |-> SortByCreatedDesc(entries)])

(***************************************************************************)
(* Actions.                                                                *)
(***************************************************************************)
Request(op, code, u) == [op |-> op, code |-> code, user |-> u]

Serve(op, code, u, result) ==
    /\ BATTLE_ROOMS' = result.rooms
    /\ resp' = result.resp
    /\ req' = Request(op, code, u)
    /\ UNCHANGED <<now, inflight>>

Create(code, u) == Serve("create", code, u, BattleCreate(BATTLE_ROOMS, now, code, u))

Join(code, u) == Serve("join", code, u, BattleJoin(BATTLE_ROOMS, now, code, u))

Ready(code, u, ready) ==
    Serve("ready", code, u, BattleReady(BATTLE_ROOMS, now, code, u, ready))

Leave(code, u) == Serve("leave", code, u, BattleLeave(BATTLE_ROOMS, now, code, u))

Start(code, u) == Serve("start", code, u, BattleStart(BATTLE_ROOMS, now, code, u))

\* the sum of the counts of a room's players
TotalCount(players) ==
    LET RECURSIVE Sum(_)
        Sum(i) == IF i = 0 THEN 0 ELSE players[i].count + Sum(i - 1)
    IN  Sum(Len(players))

Tap(code, u, cap) ==
    LET result == BattleTap(BATTLE_ROOMS, now, code, u)
    IN  /\ \A c \in DOMAIN result.rooms : TotalCount(result.rooms[c].players) <= cap
        /\ Serve("tap", code, u, result)

State(code, u) == Serve("state", code, u, BattleState(BATTLE_ROOMS, now, code, u))

Surrender(code, u) ==
    Serve("surrender", code, u, BattleSurrender(BATTLE_ROOMS, now, code, u))

\* GET /api/battle/rooms has no code; the registry is iterated in one of the
\* orders its keys may have
Rooms(u) ==
    \E order \in DictOrders(DOMAIN BATTLE_ROOMS) :
        Serve("rooms", "", u, BattleRooms(BATTLE_ROOMS, now, order))

(***************************************************************************)
(* Handlers run by a thread w of the server, one access to the shared      *)
(* registry per step.  inflight[w] holds the thread's place in the handler *)
(* and its local values: `absent` is the outcome of battle_tap's           *)
(* membership test, `count` the value read by `+= 1`, `detached` tells     *)
(* that the player record the thread has loaded is no longer the one       *)
(* stored in players, `is_creator` is the local of battle_leave.  `room`   *)
(* is empty as long as the room object the thread has looked up is the one *)
(* in the registry; once that object has been taken out of the registry,   *)
(* `room` holds it, and the thread goes on reading and writing it there.   *)
(***************************************************************************)
IdleWorker ==
    [pc |-> "idle", code |-> "", user |-> None, absent |-> FALSE, count |-> 0,
     detached |-> FALSE, is_creator |-> FALSE, room |-> <<>>,
     resp |-> [status |-> 0, message |-> "none"]]

Idle == \A w \in Workers : inflight[w].pc = "idle"

\* the step of thread w: the registry and the thread's record it leaves
Step(w, rooms, record) ==
    /\ BATTLE_ROOMS' = rooms
    /\ inflight' = [inflight EXCEPT ![w] = record]
    /\ UNCHANGED <<now, req, resp>>

\* the room object that thread w has looked up
Held(w) ==
    IF inflight[w].room = <<>> THEN BATTLE_ROOMS[inflight[w].code]
    ELSE inflight[w].room[1]

\* the step of thread w that leaves `room` as the room object it has looked
\* up: in the registry, or outside when the object is no longer in it
Mutate(w, room, record) ==
    IF inflight[w].room = <<>>
    THEN Step(w, Store(BATTLE_ROOMS, inflight[w].code, room), record)
    ELSE Step(w, BATTLE_ROOMS, [record EXCEPT !.room = <<room>>])

\* the threads' records once the registry has become `rooms`: a thread in the
\* middle of a handler keeps the room object that is no longer in the registry
Orphaned(rooms, records) ==
    [o \in Workers |->
        IF /\ records[o].pc \notin {"idle", "done"}
           /\ records[o].room = <<>>
           /\ records[o].code \in DOMAIN BATTLE_ROOMS
           /\ records[o].code \notin DOMAIN rooms
        THEN [records[o] EXCEPT !.room = <<BATTLE_ROOMS[records[o].code]>>]
        ELSE records[o]]

\* the step of thread w that takes rooms out of the registry
Remove(w, rooms, record) ==
    /\ BATTLE_ROOMS' = rooms
    /\ inflight' = Orphaned(rooms, [inflight EXCEPT ![w] = record])
    /\ UNCHANGED <<now, req, resp>>

\* battle_tap: the lookup of the room, its snapshot and the two refusals
TapLookup(w, code, u) ==
    /\ inflight[w].pc = "idle"
    /\ LET mine == [inflight[w] EXCEPT !.code = code, !.user = u]
       IN  IF code \notin DOMAIN BATTLE_ROOMS
           THEN Step(w, BATTLE_ROOMS,
                     [mine EXCEPT !.pc = "done", !.resp = Error("no_room", 404)])
           ELSE LET first == RoomState(BATTLE_ROOMS[code], now)
                IN  IF TapTooEarly(first.state)
                    THEN Step(w, Store(BATTLE_ROOMS, code, first.room),
                              [mine EXCEPT !.pc = "done", !.resp = Error("not_started", 400)])
                    ELSE IF TapTooLate(first.state)
                    THEN Step(w, Store(BATTLE_ROOMS, code,
                                       [first.room EXCEPT !.finished_at = now]),
                              [mine EXCEPT !.pc = "done", !.resp = Error("finished", 400)])
                    ELSE Step(w, Store(BATTLE_ROOMS, code, first.room),
                              [mine EXCEPT !.pc = "test"])

\* battle_tap: user["id"] not in players
TapTest(w) ==
    /\ inflight[w].pc = "test"
    /\ LET absent == inflight[w].user \notin Keys(Held(w).players)
       IN  Step(w, BATTLE_ROOMS,
                [inflight[w] EXCEPT !.absent = absent,
                                    !.pc = IF absent THEN "admit" ELSE "load"])

\* battle_tap: players[user["id"]] = {..., "count": 0}: a thread that has
\* loaded the record of the same user of the same room object holds a record
\* that is no longer in players
TapAdmit(w) ==
    /\ inflight[w].pc = "admit"
    /\ LET code == inflight[w].code
           u    == inflight[w].user
           room == [Held(w) EXCEPT !.players = SetPlayer(@, u, TapPlayer(u))]
           mine == [inflight[w] EXCEPT !.pc = "load"]
       IN  IF inflight[w].room # <<>>
           THEN Mutate(w, room, mine)
           ELSE /\ BATTLE_ROOMS' = Store(BATTLE_ROOMS, code, room)
                /\ inflight' =
                      [o \in Workers |->
                          IF o = w THEN mine
                          ELSE IF /\ inflight[o].pc = "store"
                                  /\ inflight[o].room = <<>>
                                  /\ inflight[o].code = code
                                  /\ inflight[o].user = u
                               THEN [inflight[o] EXCEPT !.detached = TRUE]
                               ELSE inflight[o]]
                /\ UNCHANGED <<now, req, resp>>

\* battle_tap: players[user["id"]]["count"] += 1 : the read
TapLoad(w) ==
    /\ inflight[w].pc = "load"
    /\ Step(w, BATTLE_ROOMS,
            [inflight[w] EXCEPT
                !.count = GetPlayer(Held(w).players, inflight[w].user).count,
                !.detached = FALSE,
                !.pc = "store"])

\* battle_tap: players[user["id"]]["count"] += 1 : the write, into the record
\* loaded
TapStore(w) ==
    /\ inflight[w].pc = "store"
    /\ LET u    == inflight[w].user
           old  == Held(w).players
           new  == SetPlayer(old, u, [GetPlayer(old, u) EXCEPT
                                         !.count = inflight[w].count + 1])
           room == [Held(w) EXCEPT
                       !.players = IF inflight[w].detached THEN old ELSE new]
       IN  Mutate(w, room, [inflight[w] EXCEPT !.pc = "reply"])

\* battle_tap: return jsonify({"message": ..., "state": _room_state(room)})
TapReply(w) ==
    /\ inflight[w].pc = "reply"
    /\ LET rs == RoomState(Held(w), now)
       IN  Mutate(w, rs.room,
                  [inflight[w] EXCEPT !.pc = "done", !.resp = Ok("recorded", rs.state)])

\* an exception that no handler catches: the server answers 500
Uncaught(exception) == Error(exception, 500)

\* battle_start: the lookup of the room
StartLookup(w, code, u) ==
    /\ inflight[w].pc = "idle"
    /\ LET mine == [inflight[w] EXCEPT !.code = code, !.user = u]
       IN  IF code \notin DOMAIN BATTLE_ROOMS
           THEN Step(w, BATTLE_ROOMS,
                     [mine EXCEPT !.pc = "done", !.resp = Error("no_room", 404)])
           ELSE Step(w, BATTLE_ROOMS, [mine EXCEPT !.pc = "start_creator"])

\* battle_start: room["creator_id"] != user["id"]
StartCreator(w) ==
    /\ inflight[w].pc = "start_creator"
    /\ IF ~MayStart(Held(w), inflight[w].user)
       THEN Step(w, BATTLE_ROOMS,
                 [inflight[w] EXCEPT !.pc = "done", !.resp = Error("host_only", 403)])
       ELSE Step(w, BATTLE_ROOMS, [inflight[w] EXCEPT !.pc = "start_phase"])

\* battle_start: the tests of finished_at and of started_at
StartPhase(w) ==
    /\ inflight[w].pc = "start_phase"
    /\ IF Held(w).finished_at # None
       THEN Step(w, BATTLE_ROOMS,
                 [inflight[w] EXCEPT !.pc = "done", !.resp = Error("room_finished", 400)])
       ELSE IF Held(w).started_at # None
       THEN LET rs == RoomState(Held(w), now)
            IN  Mutate(w, rs.room,
                       [inflight[w] EXCEPT !.pc = "done",
                                           !.resp = Ok("already_started", rs.state)])
       ELSE Step(w, BATTLE_ROOMS, [inflight[w] EXCEPT !.pc = "start_count"])

\* battle_start: len(players) < 2
StartCount(w) ==
    /\ inflight[w].pc = "start_count"
    /\ IF ~EnoughPlayers(Held(w))
       THEN Step(w, BATTLE_ROOMS,
                 [inflight[w] EXCEPT !.pc = "done",
                                     !.resp = Error("need_two_players", 400)])
       ELSE Step(w, BATTLE_ROOMS, [inflight[w] EXCEPT !.pc = "start_write"])

\* battle_start: room["started_at"] = _now(); room["finished_at"] = None
StartWrite(w) ==
    /\ inflight[w].pc = "start_write"
    /\ Mutate(w, [Held(w) EXCEPT !.started_at = now, !.finished_at = None],
              [inflight[w] EXCEPT !.pc = "start_reply"])

\* battle_start: return jsonify({"message": ..., "state": _room_state(room)})
StartReply(w) ==
    /\ inflight[w].pc = "start_reply"
    /\ LET rs == RoomState(Held(w), now)
       IN  Mutate(w, rs.room,
                  [inflight[w] EXCEPT !.pc = "done",
                                      !.resp = Ok("battle_started", rs.state)])

\* battle_leave: the lookup of the room
LeaveLookup(w, code, u) ==
    /\ inflight[w].pc = "idle"
    /\ LET mine == [inflight[w] EXCEPT !.code = code, !.user = u]
       IN  IF code \notin DOMAIN BATTLE_ROOMS
           THEN Step(w, BATTLE_ROOMS,
                     [mine EXCEPT !.pc = "done", !.resp = Error("no_room", 404)])
           ELSE Step(w, BATTLE_ROOMS, [mine EXCEPT !.pc = "leave_test"])

\* battle_leave: user["id"] not in players
LeaveTest(w) ==
    /\ inflight[w].pc = "leave_test"
    /\ IF inflight[w].user \notin Keys(Held(w).players)
       THEN Step(w, BATTLE_ROOMS,
                 [inflight[w] EXCEPT !.pc = "done", !.resp = Error("not_in_room", 400)])
       ELSE Step(w, BATTLE_ROOMS, [inflight[w] EXCEPT !.pc = "leave_creator"])

\* battle_leave: is_creator = room["creator_id"] == user["id"]
LeaveCreator(w) ==
    /\ inflight[w].pc = "leave_creator"
    /\ Step(w, BATTLE_ROOMS,
            [inflight[w] EXCEPT !.is_creator = (Held(w).creator_id = inflight[w].user),
                                !.pc = "leave_del"])

\* battle_leave: del players[user["id"]], a KeyError when the key is gone
LeaveDel(w) ==
    /\ inflight[w].pc = "leave_del"
    /\ IF inflight[w].user \notin Keys(Held(w).players)
       THEN Step(w, BATTLE_ROOMS,
                 [inflight[w] EXCEPT !.pc = "done", !.resp = Uncaught("KeyError")])
       ELSE Mutate(w, [Held(w) EXCEPT !.players = DelPlayer(@, inflight[w].user)],
                   [inflight[w] EXCEPT !.pc = "leave_count"])

\* battle_leave: len(players) > 0 and is_creator
LeaveCount(w) ==
    /\ inflight[w].pc = "leave_count"
    /\ Step(w, BATTLE_ROOMS,
            [inflight[w] EXCEPT
                !.pc = IF Len(Held(w).players) > 0 /\ inflight[w].is_creator
                       THEN "leave_transfer" ELSE "leave_empty"])

\* battle_leave: the host transfer and its response; list(...)[0] is an
\* IndexError when the dict has become empty
LeaveTransfer(w) ==
    /\ inflight[w].pc = "leave_transfer"
    /\ IF Held(w).players = <<>>
       THEN Step(w, BATTLE_ROOMS,
                 [inflight[w] EXCEPT !.pc = "done", !.resp = Uncaught("IndexError")])
       ELSE LET players == Held(w).players
                moved   == [Held(w) EXCEPT
                               !.creator_id = NewCreator(players),
                               !.creator_name =
                                   GetPlayer(players, NewCreator(players)).username]
                rs      == RoomState(moved, now)
            IN  Mutate(w, rs.room,
                       [inflight[w] EXCEPT
                           !.pc = "done",
                           !.resp = [status |-> 200, message |-> "left_host_transferred",
                                     state |-> rs.state, new_creator |-> TRUE]])

\* battle_leave: len(players) == 0, with del BATTLE_ROOMS[code] (a KeyError
\* when the code is gone), or the plain response
LeaveEmpty(w) ==
    /\ inflight[w].pc = "leave_empty"
    /\ IF Len(Held(w).players) = 0
       THEN IF inflight[w].code \notin DOMAIN BATTLE_ROOMS
            THEN Step(w, BATTLE_ROOMS,
                      [inflight[w] EXCEPT !.pc = "done", !.resp = Uncaught("KeyError")])
            ELSE Remove(w, DelRoom(BATTLE_ROOMS, inflight[w].code),
                        [inflight[w] EXCEPT
                            !.pc = "done",
                            !.resp = [status |-> 200, message |-> "room_dissolved",
                                      room_deleted |-> TRUE]])
       ELSE LET rs == RoomState(Held(w), now)
            IN  Mutate(w, rs.room,
                       [inflight[w] EXCEPT !.pc = "done", !.resp = Ok("left", rs.state)])

\* battle_rooms served by thread w in one piece, between the steps of the
\* other threads
ListRooms(w, u) ==
    /\ inflight[w].pc = "idle"
    /\ \E order \in DictOrders(DOMAIN BATTLE_ROOMS) :
          LET result == BattleRooms(BATTLE_ROOMS, now, order)
          IN  Remove(w, result.rooms,
                     [inflight[w] EXCEPT !.pc = "done", !.user = u, !.resp = result.resp])

\* the wall clock advances between two requests
Tick(d) ==
    /\ now + d <= MaxSeconds * UnitsPerSec
    /\ now' = now + d
    /\ UNCHANGED <<BATTLE_ROOMS, req, resp, inflight>>

Init ==
    /\ BATTLE_ROOMS = [c \in {} |-> None]
    /\ now = 0
    /\ req = Request("none", "", None)
    /\ resp = [status |-> 0, message |-> "none"]
    /\ inflight = [w \in Workers |-> IdleWorker]

\* one request of one of the users `who`, with the taps of a room capped at `cap`
Requests(who, cap) ==
    \/ \E code \in Codes, u \in who : Create(code, u)
    \/ \E code \in Codes, u \in who : Join(code, u)
    \/ \E code \in Codes, u \in who, ready \in BOOLEAN : Ready(code, u, ready)
    \/ \E code \in Codes, u \in who : Leave(code, u)
    \/ \E code \in Codes, u \in who : Start(code, u)
    \/ \E code \in Codes, u \in who : Tap(code, u, cap)
    \/ \E code \in Codes, u \in who : State(code, u)
    \/ \E code \in Codes, u \in who : Surrender(code, u)

\* three users, all of whose requests arrive within one clock unit
Next == Requests(Users, MaxTapsCrowd)

Spec == Init /\ [][Next]_vars

\* two users, and the clock advancing between their requests
NextClock ==
    \/ Requests(ClockUsers, MaxTaps)
    \/ \E d \in GameSteps : Tick(d)

SpecClock == Init /\ [][NextClock]_vars

\* the wall clock is read again at the instant t
Wait(t) ==
    /\ t > now
    /\ now' = t
    /\ UNCHANGED <<BATTLE_ROOMS, req, resp, inflight>>

\* two codes over the half hour in which rooms are collected: the hosts make,
\* leave, start and list rooms, the guests join and surrender
NextGC ==
    \/ \E code \in GCCodes, u \in GCHosts : Create(code, u)
    \/ \E code \in GCCodes, u \in GCGuests : Join(code, u)
    \/ \E code \in GCCodes, u \in GCHosts : Leave(code, u)
    \/ \E code \in GCCodes, u \in GCHosts : Start(code, u)
    \/ \E code \in GCCodes, u \in GCGuests : Surrender(code, u)
    \/ \E u \in GCHosts : Rooms(u)
    \/ \E t \in GCInstants : Wait(t)

SpecGC == Init /\ [][NextGC]_vars

\* a room is made, filled, started and perhaps ended by requests served one
\* after the other; then each thread of the server serves one tap, step by step, side by side
\* with the other
NextRace ==
    \/ Idle /\ \E code \in Codes, u \in ClockUsers : Create(code, u)
    \/ Idle /\ \E code \in Codes, u \in ClockUsers : Join(code, u)
    \/ Idle /\ \E code \in Codes, u \in ClockUsers : Start(code, u)
    \/ Idle /\ \E code \in Codes, u \in ClockUsers : Surrender(code, u)
    \/ \E w \in Workers, code \in Codes, u \in Users : TapLookup(w, code, u)
    \/ \E w \in Workers : TapTest(w)
    \/ \E w \in Workers : TapAdmit(w)
    \/ \E w \in Workers : TapLoad(w)
    \/ \E w \in Workers : TapStore(w)
    \/ \E w \in Workers : TapReply(w)

SpecRace == Init /\ [][NextRace]_vars

\* a room is made and filled by requests served one after the other; then
\* each thread of the server serves one start or one leave, step by step, side
\* by side with the other
NextRaceStart ==
    \/ Idle /\ \E code \in Codes, u \in ClockUsers : Create(code, u)
    \/ Idle /\ \E code \in Codes, u \in ClockUsers : Join(code, u)
    \/ \E w \in Workers, code \in Codes, u \in ClockUsers : StartLookup(w, code, u)
    \/ \E w \in Workers : StartCreator(w)
    \/ \E w \in Workers : StartPhase(w)
    \/ \E w \in Workers : StartCount(w)
    \/ \E w \in Workers : StartWrite(w)
    \/ \E w \in Workers : StartReply(w)
    \/ \E w \in Workers, code \in Codes, u \in ClockUsers : LeaveLookup(w, code, u)
    \/ \E w \in Workers : LeaveTest(w)
    \/ \E w \in Workers : LeaveCreator(w)
    \/ \E w \in Workers : LeaveDel(w)
    \/ \E w \in Workers : LeaveCount(w)
    \/ \E w \in Workers : LeaveTransfer(w)
    \/ \E w \in Workers : LeaveEmpty(w)

SpecRaceStart == Init /\ [][NextRaceStart]_vars

\* a room is made, filled and started by requests served one after the other,
\* up to half an hour apart; then one thread of the server serves a tap step by
\* step while the other serves the list of rooms, which collects the stale ones
NextRaceGC ==
    \/ Idle /\ \E code \in Codes, u \in ClockUsers : Create(code, u)
    \/ Idle /\ \E code \in Codes, u \in ClockUsers : Join(code, u)
    \/ Idle /\ \E code \in Codes, u \in ClockUsers : Start(code, u)
    \/ Idle /\ \E t \in GCInstants : Wait(t)
    \/ \E w \in Workers, code \in Codes, u \in Users : TapLookup(w, code, u)
    \/ \E w \in Workers : TapTest(w)
    \/ \E w \in Workers : TapAdmit(w)
    \/ \E w \in Workers : TapLoad(w)
    \/ \E w \in Workers : TapStore(w)
    \/ \E w \in Workers : TapReply(w)
    \/ \E w \in Workers, u \in ClockUsers : ListRooms(w, u)

SpecRaceGC == Init /\ [][NextRaceGC]_vars

\* time.time() read at the latest instant the model counts to: every test of
\* the code compares now with a stored instant, so that the passing of d
\* units of time is the same as every stored instant lying d units further in
\* the past; an instant further in the past than the horizon is beyond every
\* grace period and is kept at the horizon
Horizon == UNFINISHED_GRACE * UnitsPerSec + 1

Aged(instant, d) ==
    IF instant = None THEN None
    ELSE IF instant > d THEN instant - d ELSE 0

AgedRoom(room, d) ==
    [room EXCEPT !.created_at = Aged(@, d),
                 !.started_at = Aged(@, d),
                 !.finished_at = Aged(@, d)]

\* the time that passes between two requests: a little more than the grace
\* period of a finished room
ElapseSteps == {FINISHED_GRACE * UnitsPerSec + 1}

Elapse(d) ==
    /\ BATTLE_ROOMS' = [c \in DOMAIN BATTLE_ROOMS |-> AgedRoom(BATTLE_ROOMS[c], d)]
    /\ UNCHANGED <<now, req, resp, inflight>>

InitLive ==
    /\ BATTLE_ROOMS = [c \in {} |-> None]
    /\ now = Horizon
    /\ req = Request("none", "", None)
    /\ resp = [status |-> 0, message |-> "none"]
    /\ inflight = [w \in Workers |-> IdleWorker]

\* requests served one after the other for as long as the server runs: rooms
\* are made under codes that are free, joined, started, tapped, surrendered
\* and listed, and time passes
NextLive ==
    \/ \E code \in Codes, u \in ClockUsers :
          code \notin DOMAIN BATTLE_ROOMS /\ Create(code, u)
    \/ \E code \in Codes, u \in ClockUsers : Join(code, u)
    \/ \E code \in Codes, u \in ClockUsers : Start(code, u)
    \/ \E code \in Codes, u \in ClockUsers : Tap(code, u, MaxTapsCrowd)
    \/ \E code \in Codes, u \in ClockUsers : Surrender(code, u)
    \/ \E u \in ClockUsers : Rooms(u)
    \/ \E d \in ElapseSteps : Elapse(d)

\* time keeps passing and the list of rooms, which collects the stale rooms,
\* keeps being asked for
SpecLive ==
    /\ InitLive
    /\ [][NextLive]_vars
    /\ WF_vars(\E d \in ElapseSteps : Elapse(d))
    /\ WF_vars(\E u \in ClockUsers : Rooms(u))

(***************************************************************************)
(* Vocabulary of the properties.                                           *)
(***************************************************************************)
Room(c) == BATTLE_ROOMS[c]

Exists(c) == c \in DOMAIN BATTLE_ROOMS

\* the phases of a room at time t: Lobby, Active (started, not finished, the
\* 60 seconds not elapsed), Finished
InLobby(room) == room.started_at = None

WindowOver(room, t) ==
    room.started_at # None /\ t - room.started_at >= BATTLE_DURATION * UnitsPerSec

Active(room, t) ==
    room.started_at # None /\ room.finished_at = None /\ ~WindowOver(room, t)

SurrenderedSet(room) == {room.surrendered[i] : i \in 1..Len(room.surrendered)}

\* the players who have not surrendered
Standing(room) == Keys(room.players) \ SurrenderedSet(room)

\* the room of code c is left as it was by the step
RoomUnchanged(c) == Exists(c)' /\ Room(c)' = Room(c)

\* the step serves the request op of user u on code c: every handler's action
\* records its request in req and leaves the clock alone, and Tick leaves req
Serves(op, c, u) == req' = Request(op, c, u) /\ now' = now /\ inflight' = inflight

\* user u's surrender is served in the Active room c, of which u is a player
SurrenderInActive(c, u) ==
    /\ Exists(c)
    /\ Active(Room(c), now)
    /\ u \in Keys(Room(c).players)
    /\ Serves("surrender", c, u)

(***************************************************************************)
(* C1: a surrender in an Active room that leaves more than one player who  *)
(* has not surrendered does not resolve the room (finished_at,             *)
(* surrender_result and winner_id stay unset, the players are untouched);  *)
(* the surrender that leaves exactly one makes that one the winner.        *)
(* The code resolves the room on the first surrender.                      *)
(***************************************************************************)
C1_SurrenderLeavingSeveralKeepsActive ==
    [][\A c \in Codes, u \in Users :
          SurrenderInActive(c, u) =>
              LET left == Standing(Room(c)) \ {u}
              IN  /\ Cardinality(left) > 1 =>
                        /\ Exists(c)'
                        /\ Room(c)'.finished_at = None
                        /\ Room(c)'.surrender_result = "None"
                        /\ Room(c)'.winner_id = None
                        /\ Room(c)'.players = Room(c).players
                  /\ Cardinality(left) = 1 =>
                        /\ Exists(c)'
                        /\ Room(c)'.finished_at # None
                        /\ Room(c)'.surrender_result = "surrender"
                        /\ {Room(c)'.winner_id} = left]_vars

(***************************************************************************)
(* C2, as claimed: in a room of exactly the players a and b, once a has    *)
(* surrendered, b's surrender leaves the room Finished as a draw without a *)
(* winner.                                                                 *)
(***************************************************************************)
C2_SecondSurrenderDraws ==
    \A c \in DOMAIN BATTLE_ROOMS, a \in Users, b \in Users :
        (/\ a # b
         /\ Keys(Room(c).players) = {a, b}
         /\ Room(c).surrendered = <<a>>
         /\ req = Request("surrender", c, b))
        => (/\ Room(c).finished_at # None
            /\ Room(c).surrender_result = "draw"
            /\ Room(c).winner_id = None)

(***************************************************************************)
(* C2, amended: in an Active room of exactly the players a and b, a's      *)
(* surrender finishes the room with surrender_result = surrender and       *)
(* winner_id = b, and b's surrender after it is refused (400) and changes  *)
(* nothing; a surrender that brings the surrendered list to the number of  *)
(* players (the last player of a room surrenders) finishes the room as a   *)
(* draw without a winner.                                                  *)
(***************************************************************************)
C2_DrawOnlyWhenAllSurrendered ==
    [][\A c \in Codes, a \in Users :
          /\ SurrenderInActive(c, a) =>
                /\ Exists(c)'
                /\ Room(c)'.finished_at = now
                /\ Len(Room(c)'.surrendered) >= Len(Room(c)'.players) =>
                      /\ Room(c)'.surrender_result = "draw"
                      /\ Room(c)'.winner_id = None
                      /\ resp'.state.finished
                /\ \A b \in Users \ {a} :
                      (Keys(Room(c).players) = {a, b} /\ Room(c).surrendered = <<>>) =>
                          /\ Room(c)'.surrender_result = "surrender"
                          /\ Room(c)'.winner_id = b
                          /\ Room(c)'.surrendered = <<a>>
          /\ (Exists(c) /\ Room(c).finished_at # None /\ Serves("surrender", c, a)) =>
                /\ resp'.status = 400
                /\ Room(c)'.surrender_result = Room(c).surrender_result
                /\ Room(c)'.winner_id = Room(c).winner_id
                /\ Room(c)'.surrendered = Room(c).surrendered
                /\ Room(c)'.players = Room(c).players]_vars

\* b's surrender was refused in the room a's surrender had finished
C2_Witness ==
    \E c \in DOMAIN BATTLE_ROOMS, a \in Users, b \in Users :
        /\ a # b
        /\ Keys(Room(c).players) = {a, b}
        /\ Room(c).surrendered = <<a>>
        /\ Room(c).surrender_result = "surrender"
        /\ Room(c).winner_id = b
        /\ req = Request("surrender", c, b)
        /\ resp.status = 400

(***************************************************************************)
(* C3: a participant's surrender in an Active room that leaves exactly one *)
(* player who has not surrendered finishes the room with                   *)
(* surrender_result = surrender and that player as winner_id.              *)
(***************************************************************************)
C3_LastStandingWins ==
    [][\A c \in Codes, u \in Users, w \in Users :
          (SurrenderInActive(c, u) /\ Standing(Room(c)) \ {u} = {w}) =>
              /\ Exists(c)'
              /\ Room(c)'.finished_at = now
              /\ Room(c)'.surrender_result = "surrender"
              /\ Room(c)'.winner_id = w
              /\ resp'.status = 200
              /\ resp'.state.finished
              /\ resp'.state.winner_id = w]_vars

\* the first player of the room surrendered and the other one won
C3_Witness ==
    \E c \in DOMAIN BATTLE_ROOMS :
        /\ req.op = "surrender" /\ req.code = c
        /\ resp.status = 200
        /\ Len(Room(c).players) = 2
        /\ Room(c).players[1].user_id = req.user
        /\ Room(c).surrendered = <<req.user>>
        /\ Room(c).surrender_result = "surrender"
        /\ Room(c).winner_id = Room(c).players[2].user_id

(***************************************************************************)
(* C4: a tap served in an Active room is recorded: the tapping user is a   *)
(* player afterwards, with the count he had (0 if he was no player) plus   *)
(* exactly 1, and every other player's record is as it was; so N taps of   *)
(* one user leave his count at N.                                          *)
(***************************************************************************)
C4_TapAddsExactlyOne ==
    [][\A c \in Codes, u \in Users :
          (Exists(c) /\ Active(Room(c), now) /\ Serves("tap", c, u)) =>
              LET before == Room(c).players
                  after  == Room(c)'.players
                  had    == IF u \in Keys(before) THEN GetPlayer(before, u).count ELSE 0
              IN  /\ resp'.status = 200
                  /\ Keys(after) = Keys(before) \cup {u}
                  /\ Len(after) = Cardinality(Keys(after))
                  /\ GetPlayer(after, u).count = had + 1
                  /\ \A v \in Keys(before) \ {u} :
                        GetPlayer(after, v) = GetPlayer(before, v)]_vars

\* a user's second tap was served: his count is 2, the other player's is 0
C4_Witness ==
    \E c \in DOMAIN BATTLE_ROOMS :
        /\ req = Request("tap", c, req.user)
        /\ resp.status = 200
        /\ req.user \in Keys(Room(c).players)
        /\ GetPlayer(Room(c).players, req.user).count = 2
        /\ \E v \in Keys(Room(c).players) \ {req.user} :
              GetPlayer(Room(c).players, v).count = 0

(***************************************************************************)
(* C5: a tap on a room that is in Lobby or Finished (finished_at set, or   *)
(* the 60 seconds elapsed) is refused with 400, changes no count and adds  *)
(* no player.                                                              *)
(***************************************************************************)
C5_TapOutsideActiveRefused ==
    [][\A c \in Codes, u \in Users :
          (Exists(c) /\ ~Active(Room(c), now) /\ Serves("tap", c, u)) =>
              /\ resp'.status = 400
              /\ Exists(c)'
              /\ Room(c)'.players = Room(c).players]_vars

\* a tap was refused at the moment it found the 60 seconds elapsed
C5_Witness ==
    \E c \in DOMAIN BATTLE_ROOMS :
        /\ req.op = "tap" /\ req.code = c
        /\ resp = Error("finished", 400)
        /\ WindowOver(Room(c), now)
        /\ Room(c).surrender_result = "None"
        /\ Room(c).finished_at = now

(***************************************************************************)
(* C6: a room leaves Lobby only by a start of its current host with at     *)
(* least 2 players in it, which sets started_at to now; the host's start   *)
(* of a Lobby room of 2 or more players succeeds; the host's start of a    *)
(* 1-player room is refused with 400 and leaves the room in Lobby; the     *)
(* host's start of an Active room succeeds and changes no stored field.    *)
(***************************************************************************)
C6_StartNeedsTwoAndRepeats ==
    [][\A c \in Codes :
          /\ (Exists(c) /\ Exists(c)' /\ InLobby(Room(c)) /\ ~InLobby(Room(c)')) =>
                /\ Serves("start", c, Room(c).creator_id)
                /\ Len(Room(c).players) >= 2
                /\ Room(c)'.started_at = now
          /\ \A u \in Users :
                (Exists(c) /\ Serves("start", c, u) /\ u = Room(c).creator_id) =>
                    /\ (InLobby(Room(c)) /\ Len(Room(c).players) >= 2) =>
                          /\ resp'.status = 200
                          /\ Exists(c)'
                          /\ Room(c)' = [Room(c) EXCEPT !.started_at = now]
                    /\ (InLobby(Room(c)) /\ Len(Room(c).players) < 2) =>
                          /\ resp'.status = 400
                          /\ RoomUnchanged(c)
                    /\ Active(Room(c), now) =>
                          /\ resp'.status = 200
                          /\ resp'.state.started
                          /\ ~resp'.state.finished
                          /\ RoomUnchanged(c)]_vars

\* the host's start was repeated on the Active room
C6_Witness ==
    \E c \in DOMAIN BATTLE_ROOMS :
        /\ req = Request("start", c, Room(c).creator_id)
        /\ resp.status = 200
        /\ resp.message = "already_started"
        /\ Active(Room(c), now)
        /\ Len(Room(c).players) = 2

(***************************************************************************)
(* C7: a start by a user other than creator_id is refused with 403 and     *)
(* changes nothing; a start by creator_id is never refused with 403 and    *)
(* starts a Lobby room of 2 or more players; a leave of the host with      *)
(* other players left makes one of them creator_id, so that from then on   *)
(* the departed host is refused like every other user.                     *)
(***************************************************************************)
C7_OnlyCurrentHostStarts ==
    [][\A c \in Codes, u \in Users :
          /\ (Exists(c) /\ Serves("start", c, u) /\ u # Room(c).creator_id) =>
                /\ resp' = Error("host_only", 403)
                /\ BATTLE_ROOMS' = BATTLE_ROOMS
          /\ (Exists(c) /\ Serves("start", c, u) /\ u = Room(c).creator_id) =>
                /\ resp'.status # 403
                /\ (InLobby(Room(c)) /\ Len(Room(c).players) >= 2) =>
                      /\ resp'.status = 200
                      /\ Room(c)'.started_at = now
          /\ (/\ Exists(c)
              /\ Serves("leave", c, u)
              /\ u = Room(c).creator_id
              /\ Keys(Room(c).players) \ {u} # {}) =>
                /\ Exists(c)'
                /\ Room(c)'.creator_id \in Keys(Room(c).players) \ {u}
                /\ Keys(Room(c)'.players) = Keys(Room(c).players) \ {u}
                /\ resp'.status = 200]_vars

\* a user who is not in the room, as the departed host is, was refused the
\* start of a Lobby room that its host could have started
C7_Witness ==
    \E c \in DOMAIN BATTLE_ROOMS :
        /\ req.op = "start" /\ req.code = c
        /\ resp = Error("host_only", 403)
        /\ req.user \notin Keys(Room(c).players)
        /\ InLobby(Room(c))
        /\ Len(Room(c).players) >= 2

(***************************************************************************)
(* C8: the state read of a started room without finished_at, at or after   *)
(* started_at + 60 seconds, reports remaining = 0 and finished = true and  *)
(* writes finished_at; finished_at then stays set and every tap is refused *)
(* with 400; the state read of an Active room (before started_at + 60      *)
(* seconds, not finished by a surrender) reports finished = false and      *)
(* remaining > 0 and changes nothing.                                      *)
(***************************************************************************)
C8_LazyExpiryOnRead ==
    [][\A c \in Codes, u \in Users :
          /\ (/\ Exists(c)
              /\ Serves("state", c, u)
              /\ Room(c).finished_at = None
              /\ WindowOver(Room(c), now)) =>
                /\ resp'.status = 200
                /\ resp'.state.remaining = 0
                /\ resp'.state.finished
                /\ Room(c)' = [Room(c) EXCEPT !.finished_at = now]
          /\ (Exists(c) /\ Serves("state", c, u) /\ Active(Room(c), now)) =>
                /\ resp'.status = 200
                /\ resp'.state.remaining > 0
                /\ ~resp'.state.finished
                /\ RoomUnchanged(c)
          /\ (Exists(c) /\ Room(c).finished_at # None /\ req'.op # "create") =>
                (Exists(c)' => Room(c)'.finished_at # None)
          /\ (Exists(c) /\ Room(c).finished_at # None /\ Serves("tap", c, u)) =>
                /\ resp'.status = 400
                /\ Room(c)'.players = Room(c).players]_vars

\* a state read found the 60 seconds elapsed and finished the room
C8_Witness ==
    \E c \in DOMAIN BATTLE_ROOMS :
        /\ req.op = "state" /\ req.code = c
        /\ resp.status = 200
        /\ resp.state.remaining = 0
        /\ resp.state.finished
        /\ Room(c).finished_at = now
        /\ now = Room(c).started_at + BATTLE_DURATION * UnitsPerSec
        /\ Room(c).surrender_result = "None"

(***************************************************************************)
(* C9: every room of the registry has at least one player; the leave of    *)
(* the only player of a room removes the room; a request other than create *)
(* on a code that has no room answers 404 and makes no room.               *)
(***************************************************************************)
C9_NoRoomWithoutPlayers ==
    [][/\ \A c \in DOMAIN BATTLE_ROOMS' : Len(Room(c)'.players) >= 1
       /\ \A c \in Codes, u \in Users :
             /\ (Exists(c) /\ Serves("leave", c, u) /\ Keys(Room(c).players) = {u}) =>
                   /\ ~Exists(c)'
                   /\ resp'.status = 200
                   /\ resp'.room_deleted
             /\ \A op \in {"join", "ready", "leave", "start", "tap", "state", "surrender"} :
                   (~Exists(c) /\ Serves(op, c, u)) =>
                       /\ resp' = Error("no_room", 404)
                       /\ ~Exists(c)']_vars

\* the last player left and the room is gone
C9_Witness ==
    /\ req.op = "leave"
    /\ resp.status = 200
    /\ resp.message = "room_dissolved"
    /\ req.code \notin DOMAIN BATTLE_ROOMS

(***************************************************************************)
(* C10: create inserts its room under a code that no room left by the      *)
(* garbage collection has, so that every such room is still in the         *)
(* registry, unchanged, after the create; the new room is in Lobby with    *)
(* the creator as its only player and host.  _gen_code draws the code at   *)
(* random and battle_create does not look it up.                           *)
(***************************************************************************)
C10_CreateNeverReplaces ==
    [][\A c \in Codes, u \in Users :
          Serves("create", c, u) =>
              LET live == CleanupRooms(BATTLE_ROOMS, now)
              IN  /\ c \notin DOMAIN live
                  /\ \A d \in DOMAIN live : Exists(d)' /\ Room(d)' = live[d]
                  /\ Exists(c)'
                  /\ InLobby(Room(c)')
                  /\ Keys(Room(c)'.players) = {u}
                  /\ Room(c)'.creator_id = u]_vars

(***************************************************************************)
(* C11: in every reachable state, when a user who is not a player of a     *)
(* room that has no finished_at joins it and then leaves it (at once or    *)
(* after the clock has advanced), the room is in the registry with exactly *)
(* the player records it had before the join (same keys in the same order, *)
(* same counts, same ready flags), the same creator_id and creator_name,   *)
(* and no entry for that user; the join answers 200 and the leave answers  *)
(* the plain "left".                                                       *)
(***************************************************************************)
C11_JoinThenLeaveRestores ==
    \A c \in DOMAIN BATTLE_ROOMS, u \in Users, d \in {0} \cup GameSteps :
        (u \notin Keys(Room(c).players) /\ Room(c).finished_at = None) =>
            LET joined == BattleJoin(BATTLE_ROOMS, now, c, u)
                left   == BattleLeave(joined.rooms, now + d, c, u)
            IN  /\ joined.resp.status = 200
                /\ u \in Keys(joined.rooms[c].players)
                /\ left.resp.status = 200
                /\ left.resp.message = "left"
                /\ c \in DOMAIN left.rooms
                /\ left.rooms[c].players = Room(c).players
                /\ left.rooms[c].creator_id = Room(c).creator_id
                /\ left.rooms[c].creator_name = Room(c).creator_name
                /\ u \notin Keys(left.rooms[c].players)

\* a user who had joined the room of another has left it: the room is there
\* with its host and without the user, whose join would be accepted again
C11_Witness ==
    \E c \in DOMAIN BATTLE_ROOMS :
        /\ req = Request("leave", c, req.user)
        /\ resp.status = 200
        /\ resp.message = "left"
        /\ req.user \notin Keys(Room(c).players)
        /\ Room(c).finished_at = None
        /\ Room(c).creator_id \in Keys(Room(c).players)
        /\ \E p \in Keys(Room(c).players) : GetPlayer(Room(c).players, p).count > 0

(***************************************************************************)
(* C12: the garbage collection, which runs at the start of the room list   *)
(* and of create, removes exactly the rooms whose finished_at is more than *)
(* 300 seconds in the past and the rooms without finished_at whose         *)
(* created_at is more than 1800 seconds in the past; every other room is   *)
(* in the registry afterwards, unchanged (but for the room that a create   *)
(* puts under its own code), and the list adds no room.                    *)
(***************************************************************************)
C12_CleanupRemovesExactlyStale ==
    [][\A u \in Users, k \in GCCodes \cup {""} :
          (Serves("rooms", k, u) \/ Serves("create", k, u)) =>
              /\ \A c \in DOMAIN BATTLE_ROOMS \ {k} :
                    LET age == IF Room(c).finished_at # None
                               THEN now - Room(c).finished_at
                               ELSE now - Room(c).created_at
                        due == IF Room(c).finished_at # None
                               THEN age > 300 * UnitsPerSec
                               ELSE age > 1800 * UnitsPerSec
                    IN  IF due THEN ~Exists(c)' ELSE RoomUnchanged(c)
              /\ DOMAIN BATTLE_ROOMS' \subseteq DOMAIN BATTLE_ROOMS \cup {k}
              /\ req'.op = "rooms" => DOMAIN BATTLE_ROOMS' \subseteq DOMAIN BATTLE_ROOMS]_vars

\* a create has just run the collection while the other room had finished
\* exactly 300 seconds before: that room is still there
C12_Witness ==
    \E c, k \in GCCodes :
        /\ c # k
        /\ req.op = "create" /\ req.code = k
        /\ Exists(k) /\ Room(k).created_at = now
        /\ Exists(c)
        /\ Room(c).finished_at # None
        /\ now - Room(c).finished_at = FINISHED_GRACE * UnitsPerSec

(***************************************************************************)
(* C14: the room list returns exactly the rooms that the registry holds    *)
(* after the garbage collection and that have neither started_at nor       *)
(* finished_at, each once, with the name of its current host and the       *)
(* number of its players, ordered by created_at descending.                *)
(***************************************************************************)
C14_ListIsOpenRoomsNewestFirst ==
    [][\A u \in Users :
          Serves("rooms", "", u) =>
              LET open == {c \in DOMAIN BATTLE_ROOMS' :
                              Room(c)'.started_at = None /\ Room(c)'.finished_at = None}
                  list == resp'.rooms
              IN  /\ resp'.status = 200
                  /\ Len(list) = Cardinality(open)
                  /\ {list[i].code : i \in 1..Len(list)} = open
                  /\ \A i \in 1..Len(list) :
                        LET room == BATTLE_ROOMS'[list[i].code]
                        IN  /\ list[i].creator_name = Username(room.creator_id)
                            /\ room.creator_id \in Keys(room.players)
                            /\ list[i].player_count = Cardinality(Keys(room.players))
                  /\ \A i, j \in 1..Len(list) :
                        i < j => BATTLE_ROOMS'[list[i].code].created_at
                                     >= BATTLE_ROOMS'[list[j].code].created_at]_vars

\* the list holds two rooms made at different instants, the newer one first,
\* one of them with a host other than its maker
C14_Witness ==
    /\ req.op = "rooms"
    /\ resp.status = 200
    /\ Len(resp.rooms) = 2
    /\ Room(resp.rooms[1].code).created_at > Room(resp.rooms[2].code).created_at
    /\ \E i \in 1..2 : resp.rooms[i].creator_name = Username(2)

(***************************************************************************)
(* C13, as claimed: a room does not leave Lobby while one of its players   *)
(* has ready = FALSE.                                                      *)
(***************************************************************************)
C13_ReadyGatesStart ==
    [][\A c \in Codes :
          (Exists(c) /\ Exists(c)' /\ InLobby(Room(c)) /\ ~InLobby(Room(c)')) =>
              \A i \in 1..Len(Room(c)'.players) : Room(c)'.players[i].ready]_vars

(***************************************************************************)
(* C13, amended: the ready flags do not gate start.  The host's start of a *)
(* Lobby room of 2 or more players makes the room started whatever the     *)
(* ready flags of its players are, and leaves the player records as they   *)
(* are; a ready request changes nothing but the ready flag of its sender,  *)
(* and is refused with 400, changing nothing, once the room has started.   *)
(***************************************************************************)
C13_StartIgnoresReady ==
    [][\A c \in Codes, u \in Users :
          /\ (/\ Exists(c) /\ Serves("start", c, u) /\ u = Room(c).creator_id
              /\ InLobby(Room(c)) /\ Len(Room(c).players) >= 2) =>
                /\ resp'.status = 200
                /\ Exists(c)'
                /\ ~InLobby(Room(c)')
                /\ Room(c)'.players = Room(c).players
          /\ (Exists(c) /\ Serves("ready", c, u)) =>
                /\ Exists(c)'
                /\ \A v \in Keys(Room(c).players) \ {u} :
                      /\ v \in Keys(Room(c)'.players)
                      /\ GetPlayer(Room(c)'.players, v) = GetPlayer(Room(c).players, v)
                /\ Keys(Room(c)'.players) = Keys(Room(c).players)
                /\ u \in Keys(Room(c).players) =>
                      [GetPlayer(Room(c)'.players, u) EXCEPT !.ready = FALSE] =
                          [GetPlayer(Room(c).players, u) EXCEPT !.ready = FALSE]
                /\ [Room(c)' EXCEPT !.players = <<>>] = [Room(c) EXCEPT !.players = <<>>]
                /\ ~InLobby(Room(c)) => (resp'.status = 400 /\ RoomUnchanged(c))]_vars

\* the host has just started a room in which one player is ready and the
\* other is not
C13_Witness ==
    \E c \in DOMAIN BATTLE_ROOMS :
        /\ req = Request("start", c, Room(c).creator_id)
        /\ resp.status = 200
        /\ resp.message = "battle_started"
        /\ Room(c).started_at = now
        /\ \E i, j \in 1..Len(Room(c).players) :
              Room(c).players[i].ready /\ ~Room(c).players[j].ready

(***************************************************************************)
(* C15: finished_at is written once per room: once a room has a            *)
(* finished_at, no later request on it (tap, surrender, start, join,       *)
(* ready, leave, state read) changes the value while the room is in the    *)
(* registry.  (A create that redraws the code puts another room there:     *)
(* that step is C10's.)  battle_tap writes finished_at again each time it  *)
(* refuses a tap on a finished room.                                       *)
(***************************************************************************)
C15_FinishedAtWrittenOnce ==
    [][\A c \in Codes :
          (Exists(c) /\ Room(c).finished_at # None /\ Exists(c)' /\ req'.op # "create") =>
              Room(c)'.finished_at = Room(c).finished_at]_vars

(***************************************************************************)
(* C16: in every reachable state, the winner_id of a room, if set, is a    *)
(* key of the room's players and is not in its surrendered list.           *)
(* battle_leave lets the winner leave the Finished room.                   *)
(***************************************************************************)
C16_WinnerIsStandingPlayer ==
    \A c \in DOMAIN BATTLE_ROOMS :
        Room(c).winner_id # None =>
            /\ Room(c).winner_id \in Keys(Room(c).players)
            /\ ~InList(Room(c).winner_id, Room(c).surrendered)

(***************************************************************************)
(* C17: in every reachable state, the creator_id of every room of the      *)
(* registry is a key of the room's players, and creator_name is that       *)
(* player's name.                                                          *)
(***************************************************************************)
C17_CreatorIsPlayer ==
    \A c \in DOMAIN BATTLE_ROOMS :
        /\ Room(c).creator_id \in Keys(Room(c).players)
        /\ Room(c).creator_name = GetPlayer(Room(c).players, Room(c).creator_id).username

\* the host has left a room of three, and the host is now the player who had
\* joined first
C17_Witness ==
    \E c \in DOMAIN BATTLE_ROOMS :
        /\ req.op = "leave" /\ req.code = c
        /\ resp.status = 200
        /\ resp.message = "left_host_transferred"
        /\ Len(Room(c).players) = 2
        /\ req.user \notin Keys(Room(c).players)
        /\ Room(c).creator_id = Room(c).players[1].user_id

(***************************************************************************)
(* C18: the phases of a room only move forward.  A room that has a         *)
(* finished_at has a started_at; as long as the room is in the registry,   *)
(* a started_at once set keeps its value and a finished_at once set is     *)
(* not unset.  (A create that redraws the code puts another room there:    *)
(* that step is C10's.)                                                    *)
(***************************************************************************)
C18_PhasesMoveForward ==
    [][\A c \in Codes :
          /\ Exists(c)' =>
                (Room(c)'.finished_at # None => Room(c)'.started_at # None)
          /\ (Exists(c) /\ Exists(c)' /\ req'.op # "create") =>
                /\ Room(c).started_at # None =>
                      Room(c)'.started_at = Room(c).started_at
                /\ Room(c).finished_at # None => Room(c)'.finished_at # None]_vars

\* the host's start of the Finished room was refused, a minute after the
\* room had started: the room is as Finished and as started as before
C18_Witness ==
    \E c \in DOMAIN BATTLE_ROOMS :
        /\ req = Request("start", c, Room(c).creator_id)
        /\ resp = Error("room_finished", 400)
        /\ Room(c).started_at # None
        /\ Room(c).finished_at # None
        /\ now > Room(c).started_at

(***************************************************************************)
(* C19, as claimed: no request on a started room (tap, join, surrender,    *)
(* start, leave of another user, state read) lowers the count of a player  *)
(* who is in the room before and after it.                                 *)
(***************************************************************************)
C19_CountNeverLowered ==
    [][\A c \in Codes, v \in Users :
          (/\ Exists(c) /\ Exists(c)' /\ req'.op # "create"
           /\ ~InLobby(Room(c))
           /\ v \in Keys(Room(c).players) /\ v \in Keys(Room(c)'.players)) =>
              GetPlayer(Room(c)'.players, v).count >= GetPlayer(Room(c).players, v).count]_vars

(***************************************************************************)
(* C19, amended: on a started room, the only request that lowers the count *)
(* of a player who stays in the room is that player's own join, which      *)
(* stores a fresh record with count 0 and ready FALSE for him whenever the *)
(* room has no finished_at; every other request leaves the count as it is  *)
(* or, for a counted tap of that player, adds 1.                           *)
(***************************************************************************)
C19_CountLoweredOnlyByRejoin ==
    [][\A c \in Codes, v \in Users :
          (/\ Exists(c) /\ Exists(c)' /\ req'.op # "create"
           /\ ~InLobby(Room(c))
           /\ v \in Keys(Room(c).players) /\ v \in Keys(Room(c)'.players)) =>
              LET before == GetPlayer(Room(c).players, v)
                  after  == GetPlayer(Room(c)'.players, v)
              IN  IF Serves("join", c, v) /\ Room(c).finished_at = None
                  THEN after = NewPlayer(v)
                  ELSE IF Serves("tap", c, v) /\ resp'.status = 200
                  THEN after = [before EXCEPT !.count = @ + 1]
                  ELSE after = before]_vars

\* a player of the running battle has joined again after the other had
\* tapped: the count of the one is back at 0, the other's is kept
C19_Witness ==
    \E c \in DOMAIN BATTLE_ROOMS :
        /\ req.op = "join" /\ req.code = c
        /\ resp.status = 200
        /\ Active(Room(c), now)
        /\ req.user \in Keys(Room(c).players)
        /\ GetPlayer(Room(c).players, req.user) = NewPlayer(req.user)
        /\ Room(c).players[1].user_id = req.user
        /\ \E v \in Keys(Room(c).players) : GetPlayer(Room(c).players, v).count > 0

(***************************************************************************)
(* C20: two taps served side by side in the same Active room, by the same  *)
(* user or by two users, both answered 200, leave the sum of the counts of *)
(* the room higher by exactly 2, however their reads and writes of the     *)
(* registry interleave.  In SpecRace every tap is served by a thread and   *)
(* no other request is served once a thread has begun, so that the sum was *)
(* 0 before the two taps.  battle_tap takes no lock: two taps of one user  *)
(* both read the count before either writes it.                            *)
(***************************************************************************)
C20_ConcurrentTapsAllCounted ==
    \A c \in DOMAIN BATTLE_ROOMS :
        (\A w \in Workers : /\ inflight[w].pc = "done"
                            /\ inflight[w].code = c
                            /\ inflight[w].resp.status = 200) =>
            TotalCount(Room(c).players) = Cardinality(Workers)

(***************************************************************************)
(* C23: once 60 seconds have passed since the started_at of a room, no     *)
(* request adds a player to the room or changes the count of one of its    *)
(* players, whether a read has noted the expiry in finished_at or not.     *)
(* (A create that redraws the code puts another room there: that step is   *)
(* C10's.)  battle_join tests the stored finished_at, not the clock.       *)
(***************************************************************************)
C23_ScoresFrozenAfterWindow ==
    [][\A c \in Codes :
          (/\ Exists(c) /\ Exists(c)' /\ req'.op # "create"
           /\ WindowOver(Room(c), now)) =>
              /\ Keys(Room(c)'.players) \subseteq Keys(Room(c).players)
              /\ \A v \in Keys(Room(c)'.players) :
                    GetPlayer(Room(c)'.players, v).count =
                        GetPlayer(Room(c).players, v).count]_vars

(***************************************************************************)
(* C21: with a leave and a start of the same room served side by side,     *)
(* started_at is written only at a moment at which the room has 2 or more  *)
(* players and the thread that writes it serves the user who is the        *)
(* room's creator_id at that moment, however the steps of the two handlers *)
(* interleave.  battle_start and battle_leave take no lock: the leave can  *)
(* delete a player, or hand over the host, between the tests of            *)
(* battle_start and its write.                                             *)
(***************************************************************************)
C21_StartedOnlyByHostOfTwo ==
    [][\A c \in Codes :
          (Exists(c) /\ Exists(c)' /\ InLobby(Room(c)) /\ ~InLobby(Room(c)')) =>
              /\ Len(Room(c).players) >= 2
              /\ \E w \in Workers :
                    /\ inflight[w].pc = "start_write"
                    /\ inflight'[w].pc = "start_reply"
                    /\ inflight[w].code = c
                    /\ inflight[w].user = Room(c).creator_id]_vars

\* C22: the collection of stale rooms never takes a room out of the registry
\* while a request served by another thread is between its lookup of that room
\* and its last write: no step of a thread changes a room object that is no
\* longer in the registry.
C22_NoWriteToCollectedRoom ==
    [][\A w \in Workers :
          inflight[w].room # <<>> => inflight'[w].room = inflight[w].room]_vars

\* C24: every room is eventually removed from the registry: with time passing
\* and the collection of stale rooms invoked again and again, a room that is
\* in the registry is later out of it, whichever other requests keep arriving.
C24_EveryRoomEventuallyRemoved ==
    \A c \in Codes : Exists(c) ~> ~Exists(c)

====
